---------------------------- MODULE Spec2Model ----------------------------
(***************************************************************************)
(* Compatibility-scoring engine of compatibility-matrix-api.               *)
(*                                                                         *)
(* The store (Supabase tables) is shared by the request handlers; a       *)
(* handler is modelled as a process whose steps are its store operations.  *)
(* Spec serves the requests one at a time (one server process) and lets    *)
(* store operations fail; SpecWorkers lets requests overlap (several       *)
(* server processes against the one database); SpecPure applies the pure   *)
(* functions of the engine to given arguments.  SpecStart (start_assessment *)
(* on a store without assessment rows) and SpecAssessments                 *)
(* (update_assessment and submit_response) let requests overlap;           *)
(* SpecLookups serves the updaters and the two compatibility lookups one   *)
(* at a time.  SpecRace lets two updater requests overlap on a store that  *)
(* already holds a record of a pair; SpecConnections serves connection     *)
(* requests and their answers one at a time.  Except in SpecStart every    *)
(* user has started every dimension and holds the one assessment row of it.*)
(*                                                                         *)
(* Encodings.  User ids are the integers 1..NUsers; their order stands for *)
(* the lexicographic order of the id strings.  A response value is a       *)
(* record [kind, n]: kind "int" with the scale point n, kind "bool" with n *)
(* 1 for true (Python's bool is a subclass of int), or kind "str" with n   *)
(* the number of a categorical token.  A pairwise table maps a key         *)
(* <<user_id_a, user_id_b>> to the sequence of its rows of that key, oldest *)
(* first; a row's id is its key and index (rows are never deleted).  The   *)
(* assessments table maps <<user_id, dimension_id>> to its rows likewise.  *)
(* An HRV measurement holds sdnn in milliseconds, lf_hf_ratio in           *)
(* hundredths and hrv_score; the sub-scores are exact fractions.           *)
(* Python's int(x) of a non-negative float is the integer floor, taken     *)
(* here with \div on exact integer arithmetic.                             *)
(***************************************************************************)
EXTENDS Integers, Sequences, FiniteSets, TLC

\* ------------------------------------------------------------------ bounds
NUsers == 3            \* user ids 1..NUsers
NProcs == 2            \* requests in flight at the same time
MaxRequests == 4       \* requests served one at a time in one behaviour
MaxFailures == 1       \* store failures injected in one behaviour
MaxWorkerRequests == 3 \* requests served by overlapping workers
MaxOverlaps == 1       \* requests begun while another one is in flight
MaxMeasurements == 2   \* HRV measurements kept per user
MaxConnections == 1    \* rows of the connections table
MaxPairConnections == 3 \* the same where only connection requests are served
MaxResponses == 4      \* responses kept in one assessment
MaxAnswers == 3        \* length of the response lists given to the scorer
MaxEntries == 3        \* length of the dimension score lists aggregated
MaxRaceRequests == 2   \* requests that overlap on a store with a record

Users == 1..NUsers
Procs == 1..NProcs

\* --------------------------------------------------------------- catalogue
\* Two questionnaire dimensions.
Dims == {"D1", "D2"}
\* biometrics.py:458 the fixed dimension id of the physiological dimension
BIO_DIMENSION_ID == "9fdf8cff-974b-4ffe-913d-5e0eb0dc48c9"
NoName == "-"

Max(a, b) == IF a >= b THEN a ELSE b
Min(a, b) == IF a <= b THEN a ELSE b
Abs(x) == IF x >= 0 THEN x ELSE -x

Num(n) == [kind |-> "int", n |-> n]
Cat(n) == [kind |-> "str", n |-> n]
\* a JSON true / false: in Python bool is a subclass of int, True is 1
Bool(n) == [kind |-> "bool", n |-> n]

\* ------------------------------------------------------------ pure functions

\* assessments.py:721  isinstance(user_value, type(other_value)): the types
\* are the same, or the first is a subclass of the second (bool of int)
IsInstance(user_value, other_value) ==
    \/ user_value.kind = other_value.kind
    \/ user_value.kind = "bool" /\ other_value.kind = "int"

\* a plausible slip: only numeric values earn points
Similarity_NumericOnly(user_value, other_value) ==
    IF user_value.kind \in {"int", "bool"}
    THEN LET difference == Abs(user_value.n - other_value.n)
             max_difference == 4
         IN  Max(0, 100 - (difference * 100) \div max_difference)
    ELSE 0

\* assessments.py:724-736  points of one compared position
\* (isinstance(user_value, (int, float)) holds of an int and of a bool)
Similarity(user_value, other_value) ==
    IF user_value.kind \in {"int", "bool"}
    THEN LET difference == Abs(user_value.n - other_value.n)
             max_difference == 4
         IN  Max(0, 100 - (difference * 100) \div max_difference)
    ELSE IF user_value = other_value THEN 100 ELSE 0

\* assessments.py:716-736  the loop: a position of different format is
\* skipped (continue) and adds nothing to total_points
RECURSIVE TotalPoints(_, _, _)
TotalPoints(user_responses, other_responses, i) ==
    IF i > Len(user_responses) THEN 0
    ELSE (IF ~IsInstance(user_responses[i], other_responses[i]) THEN 0
          ELSE Similarity(user_responses[i], other_responses[i]))
         + TotalPoints(user_responses, other_responses, i + 1)

\* a plausible slip: rounding to the nearest integer instead of int()
calculate_compatibility_score_Rounded(user_responses0, other_responses0) ==
    LET min_length == Min(Len(user_responses0), Len(other_responses0))
        user_responses == SubSeq(user_responses0, 1, min_length)
        other_responses == SubSeq(other_responses0, 1, min_length)
        total_points == TotalPoints(user_responses, other_responses, 1)
        max_points == Len(user_responses) * 100
    IN  IF max_points = 0 THEN 0
        ELSE (2 * total_points * 100 + max_points) \div (2 * max_points)

\* assessments.py:697-742
calculate_compatibility_score(user_responses0, other_responses0) ==
    LET min_length == Min(Len(user_responses0), Len(other_responses0))
        user_responses == SubSeq(user_responses0, 1, min_length)
        other_responses == SubSeq(other_responses0, 1, min_length)
        total_points == TotalPoints(user_responses, other_responses, 1)
        max_points == Len(user_responses) * 100
    IN  IF max_points = 0 THEN 0
        ELSE (total_points * 100) \div max_points


\* ------------------------------------------------------- aggregation helpers

\* A dimension score entry is [dimension_id, name, score]; name is NoName
\* where the code writes no "name" key, score is NoScore where it is None.
NoScore == -1
Entry(dimension_id, name, score) ==
    [dimension_id |-> dimension_id, name |-> name, score |-> score]

RECURSIVE SumScores(_)
SumScores(dimension_scores) ==
    IF dimension_scores = <<>> THEN 0
    ELSE Head(dimension_scores).score + SumScores(Tail(dimension_scores))

Reverse(s) == [i \in 1..Len(s) |-> s[Len(s) + 1 - i]]
Take(s, n) == SubSeq(s, 1, Min(n, Len(s)))

\* sorted(..., key=score, reverse=True): stable, equal scores keep their order
InsertDesc(sorted, d) ==
    LET k == Cardinality({i \in 1..Len(sorted) : sorted[i].score >= d.score})
    IN  SubSeq(sorted, 1, k) \o <<d>> \o SubSeq(sorted, k + 1, Len(sorted))
RECURSIVE SortDesc(_)
SortDesc(s) ==
    IF s = <<>> THEN <<>>
    ELSE InsertDesc(SortDesc(SubSeq(s, 1, Len(s) - 1)), s[Len(s)])

\* the {dimension_id, score} dictionaries appended to strengths / challenges
Strip(s) == [i \in 1..Len(s) |-> Entry(s[i].dimension_id, NoName, s[i].score)]

\* a plausible slip: the challenge test written as <= 70
identify_strengths_and_challenges_Le(dimension_scores) ==
    LET sorted_dimensions == SortDesc(dimension_scores)
        IsStrength(d) == d.score >= 70
        IsChallenge(d) == d.score <= 70
    IN  [strengths |-> Strip(SelectSeq(Take(sorted_dimensions, 3), IsStrength)),
         challenges |-> Strip(SelectSeq(Take(Reverse(sorted_dimensions), 2),
                                        IsChallenge))]

\* assessments.py:744-771, copied to biometrics.py:539-566
identify_strengths_and_challenges(dimension_scores) ==
    LET sorted_dimensions == SortDesc(dimension_scores)
        IsStrength(d) == d.score >= 70
        IsChallenge(d) == d.score < 70
    IN  [strengths |-> Strip(SelectSeq(Take(sorted_dimensions, 3), IsStrength)),
         challenges |-> Strip(SelectSeq(Take(Reverse(sorted_dimensions), 2),
                                        IsChallenge))]

\* compatibility.py:11-41  the variant of the two read paths: thresholds 75 and 50,
\* no limit on the number of entries, an entry without a score is passed over
report_identify_strengths_and_challenges(dimension_scores) ==
    LET IsStrength(d) == d.score # NoScore /\ d.score >= 75
        IsChallenge(d) == d.score # NoScore /\ ~(d.score >= 75) /\ d.score < 50
    IN  [strengths |-> SelectSeq(dimension_scores, IsStrength),
         challenges |-> SelectSeq(dimension_scores, IsChallenge)]

\* biometrics.py:463-478  strengths / challenges of the record seeded with the
\* physiological dimension only
seeded_strengths_and_challenges(compatibility_score) ==
    [strengths |-> IF compatibility_score >= 70
                   THEN <<Entry(BIO_DIMENSION_ID, NoName, compatibility_score)>>
                   ELSE <<>>,
     challenges |-> IF compatibility_score < 50
                    THEN <<Entry(BIO_DIMENSION_ID, NoName, compatibility_score)>>
                    ELSE <<>>]

\* a plausible slip: round() instead of int()
overall_updater_Rounded(dimension_scores) ==
    (2 * SumScores(dimension_scores) + Len(dimension_scores))
        \div (2 * Len(dimension_scores))

\* assessments.py:661 and biometrics.py:511
\*   int(sum(d['score'] ...) / len(dimension_scores))
\* (called on the merged list only, which is never empty)
overall_updater(dimension_scores) ==
    SumScores(dimension_scores) \div Len(dimension_scores)

\* compatibility.py:432-433  GET /compatibility/{user_id} leaves entries
\* without a score out of the sum and of the count
overall_with_user(dimension_scores) ==
    LET present == SelectSeq(dimension_scores, LAMBDA d : d.score # NoScore)
    IN  SumScores(present) \div Len(present)

\* compatibility.py:709-710  GET /compatibility/report/{user_id} counts an
\* entry without a score as 0:
\*   int(sum(d.get('score', 0) or 0 ...) / len(dimension_scores))
overall_report(dimension_scores) ==
    LET present == SelectSeq(dimension_scores, LAMBDA d : d.score # NoScore)
    IN  SumScores(present) \div Len(dimension_scores)

\* a plausible slip: always append
MergeAppend(dimension_scores, d) == Append(dimension_scores, d)

\* assessments.py:651-658 and biometrics.py:493-507  merge: replace the first
\* entry of the same dimension_id, else append
Merge(dimension_scores, d) ==
    LET same == {i \in 1..Len(dimension_scores) :
                    dimension_scores[i].dimension_id = d.dimension_id}
    IN  IF same # {}
        THEN LET dimension_index == CHOOSE i \in same : \A j \in same : i <= j
             IN  [dimension_scores EXCEPT ![dimension_index] = d]
        ELSE Append(dimension_scores, d)

\* --------------------------------------------------------- HRV comparator
\* A measurement is [sdnn, lf_hf, hrv_score]: sdnn in whole milliseconds,
\* lf_hf the LF/HF ratio in hundredths, hrv_score an integer.  A sub-score is
\* kept as an exact fraction [num, den].

\* a plausible slip: the ratio taken as max / min
sdnn_score_Inverted(user1_hrv, user2_hrv) ==
    LET max_sdnn == Max(user1_hrv.sdnn, user2_hrv.sdnn)
        min_sdnn == Min(user1_hrv.sdnn, user2_hrv.sdnn)
        sdnn_diff == Abs(user1_hrv.sdnn - user2_hrv.sdnn)
    IN  IF min_sdnn >= 50
        THEN [num |-> 100 * max_sdnn, den |-> min_sdnn]
        ELSE IF 15 <= sdnn_diff /\ sdnn_diff <= 40
             THEN [num |-> 90, den |-> 1]
             ELSE [num |-> Max(100, 200 - Abs(sdnn_diff - 25) * 3), den |-> 2]

\* biometrics.py:310-327
sdnn_score(user1_hrv, user2_hrv) ==
    LET max_sdnn == Max(user1_hrv.sdnn, user2_hrv.sdnn)
        min_sdnn == Min(user1_hrv.sdnn, user2_hrv.sdnn)
        sdnn_diff == Abs(user1_hrv.sdnn - user2_hrv.sdnn)
    IN  IF min_sdnn >= 50
        THEN [num |-> 100 * min_sdnn, den |-> max_sdnn]
        ELSE IF 15 <= sdnn_diff /\ sdnn_diff <= 40
             THEN [num |-> 90, den |-> 1]
             ELSE [num |-> Max(100, 200 - Abs(sdnn_diff - 25) * 3), den |-> 2]

\* a plausible slip: the closer the two ratios, the higher the score
lf_hf_score_Similar(user1_hrv, user2_hrv) ==
    LET lf_hf_diff == Abs(user1_hrv.lf_hf - user2_hrv.lf_hf)
    IN  [num |-> Max(250, 500 - lf_hf_diff * 2), den |-> 5]

\* biometrics.py:331-338  (0.5, 1.0 and 0.75 are 50, 100 and 75 hundredths)
lf_hf_score(user1_hrv, user2_hrv) ==
    LET lf_hf_diff == Abs(user1_hrv.lf_hf - user2_hrv.lf_hf)
    IN  IF 50 <= lf_hf_diff /\ lf_hf_diff <= 100
        THEN [num |-> 100, den |-> 1]
        ELSE [num |-> Max(250, 500 - Abs(lf_hf_diff - 75) * 2), den |-> 5]

\* biometrics.py:342-352
hrv_score_comp(user1_hrv, user2_hrv) ==
    LET hrv_score_diff == Abs(user1_hrv.hrv_score - user2_hrv.hrv_score)
    IN  IF Max(user1_hrv.hrv_score, user2_hrv.hrv_score) >= 80 THEN 90
        ELSE IF hrv_score_diff <= 15 THEN 100
        ELSE Max(50, 100 - (hrv_score_diff - 15) * 2)

\* biometrics.py:358-377  round(sub-score): Python rounds a half to the even
\* neighbour
PyRound(f) ==
    LET q == f.num \div f.den
        r == f.num % f.den
    IN  IF 2 * r < f.den THEN q
        ELSE IF 2 * r > f.den THEN q + 1
        ELSE IF q % 2 = 0 THEN q ELSE q + 1

\* biometrics.py:358-377  the "score" of each entry of compatibility_details
compatibility_details(user1_hrv, user2_hrv) ==
    [sdnn_compatibility |-> PyRound(sdnn_score(user1_hrv, user2_hrv)),
     lf_hf_compatibility |-> PyRound(lf_hf_score(user1_hrv, user2_hrv)),
     hrv_score_compatibility |->
        PyRound([num |-> hrv_score_comp(user1_hrv, user2_hrv), den |-> 1])]

\* a plausible slip: rounding to the nearest integer instead of int()
calculate_hrv_compatibility_Rounded(user1_hrv, user2_hrv) ==
    LET s == sdnn_score(user1_hrv, user2_hrv)
        l == lf_hf_score(user1_hrv, user2_hrv)
        h == hrv_score_comp(user1_hrv, user2_hrv)
    IN  (2 * (2 * s.num * l.den + 2 * l.num * s.den + h * s.den * l.den)
         + 5 * s.den * l.den) \div (10 * s.den * l.den)

\* biometrics.py:286-355  final_score =
\*   int(sdnn_score * 0.4 + lf_hf_score * 0.4 + hrv_score_comp * 0.2)
calculate_hrv_compatibility(user1_hrv, user2_hrv) ==
    LET s == sdnn_score(user1_hrv, user2_hrv)
        l == lf_hf_score(user1_hrv, user2_hrv)
        h == hrv_score_comp(user1_hrv, user2_hrv)
    IN  (2 * s.num * l.den + 2 * l.num * s.den + h * s.den * l.den)
            \div (5 * s.den * l.den)

Measurement(sdnn, lf_hf, hrv_score) ==
    [sdnn |-> sdnn, lf_hf |-> lf_hf, hrv_score |-> hrv_score]

\* ----------------------------------------------------- pair key canonicalizer

\* a plausible slip: the ids are not ordered
CanonicalUnordered(user_id, other_user_id) ==
    [user_id_a |-> user_id, user_id_b |-> other_user_id]

\* assessments.py:625-630, biometrics.py:234-239, connections.py:255-256
\* the if / else form
Canonical(user_id, other_user_id) ==
    IF user_id < other_user_id
    THEN [user_id_a |-> user_id, user_id_b |-> other_user_id]
    ELSE [user_id_a |-> other_user_id, user_id_b |-> user_id]

\* biometrics.py:444-445, compatibility.py:266-267  the min / max form
CanonicalMinMax(user_id, other_user_id) ==
    [user_id_a |-> Min(user_id, other_user_id),
     user_id_b |-> Max(user_id, other_user_id)]

\* ------------------------------------------------------------------- inputs
\* The answers a user gives to the questions of a dimension: one sheet per
\* user.  A client sends the whole sheet as one batch of responses, or the
\* empty batch (a PUT with "responses": []).
SheetA == <<Num(3), Num(4), Num(5)>>
SheetB == <<Num(3), Num(5), Num(5)>>
SheetC == <<Num(1), Num(1), Num(1)>>
\* assessments.py:436-437  total_questions = len(questions) of the dimension
QuestionCount == Len(SheetA)
AnswerSheet(u) == IF u = 1 THEN SheetA ELSE IF u = 2 THEN SheetB ELSE SheetC
Batches(u) == {<<>>, AnswerSheet(u)}

\* HRV measurements a client may save
HrvInputs == {Measurement(30, 100, 70), Measurement(60, 170, 72)}

\* ---------------------------------------------------------------- the state
VARIABLES
    assessments,    \* user_assessments: [<<user_id, dimension_id>> -> rows]
    measurements,   \* biometric_measurements: per user, oldest first
    compat,         \* compatibility_scores: [key -> rows]
    bio,            \* biometric_compatibility_scores: [key -> scores]
    connections,    \* connections: sequence of rows
    proc,           \* the requests in flight: position and local variables
    budget,         \* what is left of the bounds on requests, overlaps
                    \* and failures
    calc,           \* a pure function applied to given arguments
    lastRun         \* history: the questionnaire updater run that just ended

vars == <<assessments, measurements, compat, bio, connections, proc,
          budget, calc, lastRun>>

Budget(requests, overlaps, failures) ==
    [requests |-> requests, overlaps |-> overlaps, failures |-> failures,
     connections |-> MaxConnections]
NoCalc == [fn |-> "none", x |-> <<>>, y |-> <<>>, done |-> FALSE, out |-> <<>>]

Keys == Users \X Users
KeyOf(key) == <<key.user_id_a, key.user_id_b>>
NoKey == [user_id_a |-> 0, user_id_b |-> 0]
NoRun == [user |-> 0, dim |-> ""]

Idle == [pc |-> "idle", kind |-> "none", user |-> 0, dim |-> "",
         batch |-> <<>>, cur |-> <<>>, user_data |-> <<>>, snap |-> <<>>,
         assessment_id |-> 0,
         todo |-> {}, other |-> 0, key |-> NoKey, existing |-> 0,
         read_dims |-> <<>>, score |-> 0, conn |-> 0, action |-> "",
         result |-> "", written |-> <<>>, failed |-> "no", ran |-> FALSE,
         solo |-> FALSE, rerun |-> FALSE, compat0 |-> <<>>]

AssessmentRow(status, progress, responses) ==
    [status |-> status, progress |-> progress, responses |-> responses]

CompatRow(overall_score, dimension_scores, strengths, challenges) ==
    [overall_score |-> overall_score, dimension_scores |-> dimension_scores,
     strengths |-> strengths, challenges |-> challenges]

\* .eq('user_id_a', a).eq('user_id_b', b) on a pairwise table: the row ids
\* of the key; a read that finds none is written 0
RowIds(table, key) == 1..Len(table[KeyOf(key)])
ReadIds(table, key) == IF RowIds(table, key) = {} THEN {0} ELSE RowIds(table, key)

\* .insert(row) and .update(...).eq('id', id)
Insert(table, key, row) == [table EXCEPT ![KeyOf(key)] = Append(@, row)]
\* a plausible slip: the write of an existing record sent as an insert
Update_Inserted(table, key, id, row) == [table EXCEPT ![KeyOf(key)] = Append(@, row)]
Update(table, key, id, row) == [table EXCEPT ![KeyOf(key)][id] = row]

\* The uniqueness constraint of compatibility_scores on (user_id_a,
\* user_id_b): an insert of a key that is already stored is rejected.
UniqueViolation(table, key) == RowIds(table, key) # {}

Last(s) == s[Len(s)]

\* assessments.py:238-246  the row start_assessment inserts
new_assessment == AssessmentRow("in_progress", 0, <<>>)

\* Every user has started every dimension (start_assessment inserted the
\* in_progress row with no responses), nothing else is stored.
EmptyStore ==
    /\ assessments = [k \in Users \X Dims |-> <<new_assessment>>]
    /\ measurements = [u \in Users |-> <<>>]
    /\ compat = [k \in Keys |-> <<>>]
    /\ bio = [k \in Keys |-> <<>>]
    /\ connections = <<>>
    /\ proc = [p \in Procs |-> Idle]
    /\ lastRun = NoRun

\* one server process: the requests are served one at a time
Init ==
    /\ EmptyStore
    /\ budget = Budget(MaxRequests, 0, MaxFailures)
    /\ calc = NoCalc

\* No user has started a dimension, nothing is stored.
NoAssessments ==
    /\ assessments = [k \in Users \X Dims |-> <<>>]
    /\ measurements = [u \in Users |-> <<>>]
    /\ compat = [k \in Keys |-> <<>>]
    /\ bio = [k \in Keys |-> <<>>]
    /\ connections = <<>>
    /\ proc = [p \in Procs |-> Idle]
    /\ lastRun = NoRun

\* several server processes, the users start their assessments
InitStart ==
    /\ NoAssessments
    /\ budget = Budget(MaxWorkerRequests, MaxOverlaps, 0)
    /\ calc = NoCalc

\* several server processes, the users answer their assessments
InitAssessments ==
    /\ EmptyStore
    /\ budget = Budget(MaxWorkerRequests, MaxOverlaps, 0)
    /\ calc = NoCalc

\* one server process, store failures, the lookups among the requests
InitLookups ==
    /\ EmptyStore
    /\ budget = Budget(MaxWorkerRequests, 0, MaxFailures)
    /\ calc = NoCalc

\* several server processes against the one store: requests overlap
InitWorkers ==
    /\ EmptyStore
    /\ budget = Budget(MaxWorkerRequests, MaxOverlaps, 0)
    /\ calc = NoCalc

\* one server process, the connection requests and their answers
InitConnections ==
    /\ EmptyStore
    /\ budget = [Budget(MaxRequests, 0, 0) EXCEPT
                    !.connections = MaxPairConnections]
    /\ calc = NoCalc

\* A store in the middle of its life: users 1 and 2 have completed D1 (the
\* updater inserted the record of the pair), user 2 has completed D2 and has
\* saved a measurement.  Several server processes, two requests that overlap.
InitRace ==
    /\ assessments = [k \in Users \X Dims |->
           IF k \in {<<1, "D1">>, <<2, "D1">>, <<2, "D2">>}
           THEN <<AssessmentRow("completed", 100, AnswerSheet(k[1]))>>
           ELSE <<new_assessment>>]
    /\ measurements = [u \in Users |->
           IF u = 2 THEN <<Measurement(60, 170, 72)>> ELSE <<>>]
    /\ compat = [k \in Keys |->
           IF k = <<1, 2>>
           THEN <<CompatRow(calculate_compatibility_score(SheetA, SheetB),
                    <<Entry("D1", NoName,
                            calculate_compatibility_score(SheetA, SheetB))>>,
                    <<>>, <<>>)>>
           ELSE <<>>]
    /\ bio = [k \in Keys |-> <<>>]
    /\ connections = <<>>
    /\ proc = [p \in Procs |-> Idle]
    /\ lastRun = NoRun
    /\ budget = Budget(MaxRaceRequests, MaxOverlaps, 0)
    /\ calc = NoCalc

\* ---------------------------------------------------------- request frame
NoneDone == \A q \in Procs : proc[q].pc # "done"
CanStep(p, pc) == proc[p].pc = pc /\ NoneDone
Alone(p) == \A o \in Procs \ {p} : proc[o].pc = "idle"
\* the updaters are run by update_assessment and save_hrv_measurement
Updating(q) == proc[q].kind \in {"update_assessment", "submit_response", "save_hrv"}
\* a request takes the first free slot
CanStart(p) ==
    /\ CanStep(p, "idle")
    /\ \A q \in Procs : q < p => proc[q].pc # "idle"
    /\ budget.requests > 0
    /\ Alone(p) \/ budget.overlaps > 0

\* A request begins.  History: solo says that no other request that runs an
\* updater is in flight with it, compat0 is the pairwise table it found.
Begin(p, r) ==
    LET quiet == \A o \in Procs \ {p} : ~Updating(o)
        mine == r.kind \in {"update_assessment", "submit_response", "save_hrv"}
    IN  /\ proc' = [q \in Procs |->
                      IF q = p
                      THEN [r EXCEPT !.solo = quiet,
                                     !.rerun = r.rerun /\ quiet,
                                     !.compat0 = IF quiet THEN compat ELSE <<>>]
                      ELSE IF mine /\ proc[q].pc # "idle"
                      THEN [proc[q] EXCEPT !.solo = FALSE, !.rerun = FALSE,
                                           !.compat0 = <<>>]
                      ELSE proc[q]]
        /\ budget' = [budget EXCEPT !.requests = @ - 1,
                                    !.overlaps = IF Alone(p) THEN @ ELSE @ - 1]
        /\ lastRun' = NoRun
        /\ UNCHANGED calc

Done(r, result) == [r EXCEPT !.pc = "done", !.result = result]

\* history: a questionnaire updater run of (user, dim) that ended alone and
\* without a failure
RunOf(r) ==
    IF r.pc = "done" /\ r.kind = "update_assessment" /\ r.ran /\ r.solo
       /\ r.failed = "no"
    THEN [user |-> r.user, dim |-> r.dim]
    ELSE NoRun
Step(p, r) ==
    /\ proc' = [proc EXCEPT ![p] = r]
    /\ lastRun' = IF r.pc = "done" THEN RunOf(r) ELSE lastRun
    /\ UNCHANGED calc

\* the response has been sent
Return(p) ==
    /\ proc[p].pc = "done"
    /\ proc' = [proc EXCEPT ![p] = Idle]
    /\ UNCHANGED <<assessments, measurements, compat, bio, connections,
                   budget, calc, lastRun>>

\* ------------------------------------------------------ failure handling
\* a plausible slip: the updater re-raises and the request answers 500
PropagatedResult == "error"

\* assessments.py:692-695, biometrics.py:282-284 and 534-536: the updater's
\* except clause prints and returns, the handler goes on to answer success
SwallowedResult == "ok"

\* ---------------------------------------------------------- start_assessment
\* assessments.py:170-204  the handler looks for a row of the user and the
\* dimension; it answers with the first one found ("Assessment already
\* started") or goes on to create one
SA_Read(p) ==
    \E u \in Users, d \in Dims :
        LET existing == assessments[<<u, d>>]
            r == [Idle EXCEPT !.kind = "start_assessment", !.user = u, !.dim = d]
        IN  /\ CanStart(p)
            /\ Begin(p, IF existing # <<>>
                        THEN Done([r EXCEPT !.assessment_id = 1,
                                            !.written = existing[1]], "ok")
                        ELSE [r EXCEPT !.pc = "sa_insert"])
            /\ UNCHANGED <<assessments, measurements, compat, bio, connections>>

\* assessments.py:206-266  the dimension and its questions are found, the
\* new row is inserted ("Assessment started successfully")
SA_Insert(p) ==
    LET r == proc[p]
        k == <<r.user, r.dim>>
    IN  /\ CanStep(p, "sa_insert")
        /\ assessments' = [assessments EXCEPT ![k] = Append(@, new_assessment)]
        /\ Step(p, Done([r EXCEPT !.assessment_id = Len(assessments[k]) + 1,
                                  !.written = new_assessment], "ok"))
        /\ UNCHANGED <<measurements, compat, bio, connections, budget>>

\* --------------------------------------------------------- update_assessment
\* assessments.py:407-420  the handler reads the assessment row of the user
\* (a request for a row that is not the user's answers 404 and changes nothing)
UA_Read(p) ==
    \E u \in Users, d \in Dims :
      \E assessment_id \in 1..Len(assessments[<<u, d>>]), batch \in Batches(u) :
        /\ CanStart(p)
        /\ Len(assessments[<<u, d>>][assessment_id].responses) + Len(batch)
              <= MaxResponses
        /\ Begin(p, [Idle EXCEPT !.pc = "ua_write",
                                 !.kind = "update_assessment",
                                 !.user = u, !.dim = d, !.batch = batch,
                                 !.assessment_id = assessment_id,
                                 !.cur = assessments[<<u, d>>][assessment_id].responses,
                                 !.rerun = (lastRun = [user |-> u, dim |-> d]
                                            /\ batch = <<>>)])
        /\ UNCHANGED <<assessments, measurements, compat, bio, connections>>

\* assessments.py:520-553  submit_response: one answer of the user's sheet is
\* formatted and handed to update_assessment as a single response, which
\* reads the row as above and appends the one response (line 433)
SR_Read(p) ==
    \E u \in Users, d \in Dims :
      \E assessment_id \in 1..Len(assessments[<<u, d>>]), i \in 1..QuestionCount :
        /\ CanStart(p)
        /\ Len(assessments[<<u, d>>][assessment_id].responses) + 1 <= MaxResponses
        /\ Begin(p, [Idle EXCEPT !.pc = "ua_write",
                                 !.kind = "submit_response",
                                 !.user = u, !.dim = d,
                                 !.batch = <<AnswerSheet(u)[i]>>,
                                 !.assessment_id = assessment_id,
                                 !.cur = assessments[<<u, d>>][assessment_id].responses])
        /\ UNCHANGED <<assessments, measurements, compat, bio, connections>>

\* assessments.py:425-459  append the responses, recompute progress and status,
\* write the row; a completed assessment goes on to the updater
UA_Write(p) ==
    LET r == proc[p]
        responses == r.cur \o r.batch
        total_questions == QuestionCount
        completed == Len(responses)
        progress == IF total_questions > 0
                    THEN (completed * 100) \div total_questions ELSE 0
        status == IF progress >= 100 THEN "completed" ELSE "in_progress"
        row == AssessmentRow(status, progress, responses)
    IN  /\ CanStep(p, "ua_write")
        /\ assessments' = [assessments EXCEPT
                              ![<<r.user, r.dim>>][r.assessment_id] = row]
        /\ Step(p, IF status = "completed"
                   THEN [r EXCEPT !.pc = "rc_read_completed", !.written = row]
                   ELSE Done([r EXCEPT !.written = row], "ok"))
        /\ UNCHANGED <<measurements, compat, bio, connections, budget>>

\* ------------------------------------------ recalculate_compatibility_scores
\* assessments.py:597-608  read the completed assessments of the dimension;
\* of a user the first completed row is taken (the stores on which the
\* updater runs hold one row for a user and a dimension)
RC_ReadCompleted(p) ==
    LET r == proc[p]
        Completed(v) == {i \in 1..Len(assessments[<<v, r.dim>>]) :
                            assessments[<<v, r.dim>>][i].status = "completed"}
        First(v) == assessments[<<v, r.dim>>][
                        CHOOSE i \in Completed(v) : \A j \in Completed(v) : i <= j]
        completed == {v \in Users : Completed(v) # {}}
        user_responses == IF r.user \in completed
                          THEN First(r.user).responses
                          ELSE <<>>
        others == completed \ {r.user}
    IN  /\ CanStep(p, "rc_read_completed")
        /\ Step(p, IF user_responses = <<>> \/ others = {}
                   THEN Done([r EXCEPT !.ran = TRUE], SwallowedResult)
                   ELSE [r EXCEPT !.pc = "rc_read_existing", !.ran = TRUE,
                                  !.user_data = user_responses,
                                  !.snap = [v \in others |-> First(v).responses],
                                  !.todo = others])
        /\ UNCHANGED <<assessments, measurements, compat, bio, connections, budget>>

\* assessments.py:611-637  next other user (in the order the store returned
\* the rows): score, canonical key, read of the existing record
RC_ReadExisting(p) ==
    LET r == proc[p] IN
    \E other_user_id \in r.todo :
        LET key == Canonical(r.user, other_user_id)
            dimension_score ==
                calculate_compatibility_score(r.user_data, r.snap[other_user_id])
        IN  /\ CanStep(p, "rc_read_existing")
            /\ \E id \in ReadIds(compat, key) :
                  Step(p, [r EXCEPT !.pc = "rc_write",
                                    !.other = other_user_id,
                                    !.key = key,
                                    !.score = dimension_score,
                                    !.existing = id,
                                    !.read_dims = IF id = 0 THEN <<>>
                                        ELSE compat[KeyOf(key)][id].dimension_scores])
            /\ UNCHANGED <<assessments, measurements, compat, bio, connections, budget>>

\* a plausible slip: the updater returns after the first other user
RC_Stop(r) == Done([r EXCEPT !.todo = {}], SwallowedResult)

\* assessments.py:611 and 692-695  the loop goes on with the next other user
\* or the updater returns
RC_Next(r) ==
    LET todo == r.todo \ {r.other}
    IN  IF todo = {} THEN Done([r EXCEPT !.todo = {}], SwallowedResult)
        ELSE [r EXCEPT !.pc = "rc_read_existing", !.todo = todo]

\* assessments.py:639-690  update the record read, or insert a new one
RC_Write(p) ==
    LET r == proc[p]
        dimension_score_data == Entry(r.dim, NoName, r.score)
        dimension_scores == Merge(r.read_dims, dimension_score_data)
        sc == identify_strengths_and_challenges(dimension_scores)
    IN  /\ CanStep(p, "rc_write")
        /\ IF r.existing > 0
           THEN /\ compat' = Update(compat, r.key, r.existing,
                       CompatRow(overall_updater(dimension_scores),
                                 dimension_scores, sc.strengths, sc.challenges))
                /\ Step(p, RC_Next(r))
           ELSE IF UniqueViolation(compat, r.key)
           THEN /\ compat' = compat
                /\ Step(p, Done([r EXCEPT !.failed = "updater"], SwallowedResult))
           ELSE /\ compat' = Insert(compat, r.key,
                       CompatRow(r.score, <<dimension_score_data>>, <<>>, <<>>))
                /\ Step(p, RC_Next(r))
        /\ UNCHANGED <<assessments, measurements, bio, connections, budget>>

\* ------------------------------------------------------ save_hrv_measurement
\* biometrics.py:20-54  validate, insert the measurement
HRV_Insert(p) ==
    \E u \in Users, m \in HrvInputs :
        /\ CanStart(p)
        /\ Len(measurements[u]) < MaxMeasurements
        /\ measurements' = [measurements EXCEPT ![u] = Append(@, m)]
        /\ Begin(p, [Idle EXCEPT !.pc = "rb_read_user", !.kind = "save_hrv",
                                 !.user = u, !.written = m])
        /\ UNCHANGED <<assessments, compat, bio, connections>>

\* ---------------------------------------- recalculate_biometric_compatibility
\* biometrics.py:204-216  the user's most recent measurement
RB_ReadUser(p) ==
    LET r == proc[p]
    IN  /\ CanStep(p, "rb_read_user")
        /\ Step(p, IF measurements[r.user] = <<>>
                   THEN Done(r, SwallowedResult)
                   ELSE [r EXCEPT !.pc = "rb_read_others",
                                  !.user_data = Last(measurements[r.user])])
        /\ UNCHANGED <<assessments, measurements, compat, bio, connections, budget>>

\* biometrics.py:218-229  the most recent measurement of every other user
RB_ReadOthers(p) ==
    LET r == proc[p]
        others == {v \in Users \ {r.user} : measurements[v] # <<>>}
    IN  /\ CanStep(p, "rb_read_others")
        /\ Step(p, [r EXCEPT !.pc = IF others = {} THEN "uo_read_bio"
                                    ELSE "rb_read_existing",
                             !.ran = TRUE,
                             !.snap = [v \in others |-> Last(measurements[v])],
                             !.todo = others])
        /\ UNCHANGED <<assessments, measurements, compat, bio, connections, budget>>

\* biometrics.py:232-253  next other user: canonical key, score, read of the
\* existing biometric record (any of the rows of the key)
RB_ReadExisting(p) ==
    LET r == proc[p] IN
    \E other_user_id \in r.todo :
        LET key == Canonical(r.user, other_user_id)
            compatibility_score ==
                calculate_hrv_compatibility(r.user_data, r.snap[other_user_id])
        IN  /\ CanStep(p, "rb_read_existing")
            /\ \E id \in ReadIds(bio, key) :
                  Step(p, [r EXCEPT !.pc = "rb_write",
                                    !.other = other_user_id,
                                    !.key = key,
                                    !.score = compatibility_score,
                                    !.existing = id])
            /\ UNCHANGED <<assessments, measurements, compat, bio, connections, budget>>

\* biometrics.py:255-277  update the biometric record read, or insert one;
\* after the last user the overall records are updated (line 280)
RB_Write(p) ==
    LET r == proc[p]
        todo == r.todo \ {r.other}
    IN  /\ CanStep(p, "rb_write")
        /\ bio' = IF r.existing > 0
                  THEN Update(bio, r.key, r.existing, r.score)
                  ELSE Insert(bio, r.key, r.score)
        /\ Step(p, [r EXCEPT !.pc = IF todo = {} THEN "uo_read_bio"
                                    ELSE "rb_read_existing",
                             !.todo = todo])
        /\ UNCHANGED <<assessments, measurements, compat, connections, budget>>

\* ---------------------------------------- update_overall_compatibility_scores
\* biometrics.py:425-433  the biometric records the user is a member of,
\* each [key, id, compatibility_score]
UO_ReadBio(p) ==
    LET r == proc[p]
        biometric_scores ==
            UNION {{[key |-> k, id |-> i, compatibility_score |-> bio[k][i]] :
                        i \in 1..Len(bio[k])} :
                   k \in {k \in Keys : k[1] = r.user \/ k[2] = r.user}}
    IN  /\ CanStep(p, "uo_read_bio")
        /\ Step(p, IF biometric_scores = {}
                   THEN Done(r, SwallowedResult)
                   ELSE [r EXCEPT !.pc = "uo_read_compat",
                                  !.todo = biometric_scores])
        /\ UNCHANGED <<assessments, measurements, compat, bio, connections, budget>>

\* biometrics.py:438-452  next biometric record: the other member, the
\* canonical key (min / max form), read of the overall record
UO_ReadCompat(p) ==
    LET r == proc[p] IN
    \E bio_score \in r.todo :
        LET other_user_id == IF bio_score.key[1] # r.user
                             THEN bio_score.key[1] ELSE bio_score.key[2]
            key == CanonicalMinMax(r.user, other_user_id)
        IN  /\ CanStep(p, "uo_read_compat")
            /\ \E id \in ReadIds(compat, key) :
                  Step(p, [r EXCEPT !.pc = "uo_write",
                                    !.other = bio_score,
                                    !.key = key,
                                    !.score = bio_score.compatibility_score,
                                    !.existing = id,
                                    !.read_dims = IF id = 0 THEN <<>>
                                        ELSE compat[KeyOf(key)][id].dimension_scores])
            /\ UNCHANGED <<assessments, measurements, compat, bio, connections, budget>>

\* a plausible slip: the updater returns after the first biometric record
UO_Stop(r) == Done([r EXCEPT !.todo = {}], SwallowedResult)

\* biometrics.py:438  the loop goes on with the next biometric record or the
\* updater returns
UO_Next(r) ==
    LET todo == r.todo \ {r.other}
    IN  IF todo = {} THEN Done([r EXCEPT !.todo = {}], SwallowedResult)
        ELSE [r EXCEPT !.pc = "uo_read_compat", !.todo = todo]

\* biometrics.py:454-532  seed a record with the physiological dimension, or
\* merge the dimension into the record read; an exception of the write is
\* caught inside the loop, which goes on
UO_Write(p) ==
    LET r == proc[p]
        biometric_dimension ==
            Entry(BIO_DIMENSION_ID, "Physiological Compatibility", r.score)
        seeded == seeded_strengths_and_challenges(r.score)
        current_dimensions == Merge(r.read_dims, biometric_dimension)
        sc == identify_strengths_and_challenges(current_dimensions)
    IN  /\ CanStep(p, "uo_write")
        /\ IF r.existing = 0
           THEN IF UniqueViolation(compat, r.key)
                THEN /\ compat' = compat
                     /\ Step(p, UO_Next([r EXCEPT !.failed = "updater"]))
                ELSE /\ compat' = Insert(compat, r.key,
                            CompatRow(r.score, <<biometric_dimension>>,
                                      seeded.strengths, seeded.challenges))
                     /\ Step(p, UO_Next(r))
           ELSE /\ compat' = Update(compat, r.key, r.existing,
                       CompatRow(overall_updater(current_dimensions),
                                 current_dimensions, sc.strengths, sc.challenges))
                /\ Step(p, UO_Next(r))
        /\ UNCHANGED <<assessments, measurements, bio, connections, budget>>

\* ---------------------------------------------------------------- connections
ConnectionRow(sender, receiver, status) ==
    [user_id_sender |-> sender, user_id_receiver |-> receiver, status |-> status]

\* connections.py:116-186  send_connection_request: a request to oneself is
\* rejected; the lookup of an existing connection asks for rows whose receiver
\* and sender are both the receiver_id
SendConnectionRequest ==
    \E user_id \in Users, receiver_id \in Users :
        LET existing_connection ==
                {i \in 1..Len(connections) :
                    /\ (connections[i].user_id_sender = user_id
                        \/ connections[i].user_id_receiver = user_id)
                    /\ connections[i].user_id_receiver = receiver_id
                    /\ connections[i].user_id_sender = receiver_id}
        IN  /\ \A q \in Procs : proc[q].pc = "idle"
            /\ budget.requests > 0
            /\ user_id # receiver_id
            /\ existing_connection = {}
            /\ Len(connections) < budget.connections
            /\ connections' = Append(connections,
                                  ConnectionRow(user_id, receiver_id, "pending"))
            /\ budget' = [budget EXCEPT !.requests = @ - 1]
            /\ lastRun' = NoRun
            /\ UNCHANGED <<assessments, measurements, compat, bio, proc, calc>>

\* connections.py:205-228  respond_to_connection_request: the pending
\* connection whose receiver is the caller (any other request answers 404)
RESP_Read(p) ==
    \E c \in 1..Len(connections), action \in {"accept", "decline"} :
        /\ CanStart(p)
        /\ connections[c].status = "pending"
        /\ Begin(p, [Idle EXCEPT !.pc = "resp_update", !.kind = "respond",
                                 !.user = connections[c].user_id_receiver,
                                 !.other = connections[c].user_id_sender,
                                 !.conn = c, !.action = action])
        /\ UNCHANGED <<assessments, measurements, compat, bio, connections>>

\* connections.py:230-245  write the new status
RESP_Update(p) ==
    LET r == proc[p]
    IN  /\ CanStep(p, "resp_update")
        /\ connections' = [connections EXCEPT ![r.conn].status =
                              IF r.action = "accept" THEN "accepted" ELSE "declined"]
        /\ Step(p, IF r.action = "accept" THEN [r EXCEPT !.pc = "acc_read"]
                   ELSE Done(r, "ok"))
        /\ UNCHANGED <<assessments, measurements, compat, bio, budget>>

\* connections.py:253-267  accepted: is there a record of the pair
ACC_Read(p) ==
    LET r == proc[p]
        key == Canonical(r.user, r.other)
    IN  /\ CanStep(p, "acc_read")
        /\ Step(p, IF RowIds(compat, key) # {} THEN Done(r, "ok")
                   ELSE [r EXCEPT !.pc = "acc_insert", !.key = key])
        /\ UNCHANGED <<assessments, measurements, compat, bio, connections, budget>>

\* connections.py:269-285  insert the placeholder record (no strengths and no
\* challenges are written); an exception is caught and the request succeeds
ACC_Insert(p) ==
    LET r == proc[p]
        dimension_scores == <<Entry("personality", "Personality Traits", 75),
                              Entry("values", "Values & Beliefs", 68),
                              Entry("interests", "Interests", 72)>>
    IN  /\ CanStep(p, "acc_insert")
        /\ IF UniqueViolation(compat, r.key)
           THEN /\ compat' = compat
                /\ Step(p, Done([r EXCEPT !.failed = "accept"], "ok"))
           ELSE /\ compat' = Insert(compat, r.key,
                       CompatRow(70, dimension_scores, <<>>, <<>>))
                /\ Step(p, Done(r, "ok"))
        /\ UNCHANGED <<assessments, measurements, bio, connections, budget>>

\* ------------------------------------------------ get_biometric_compatibility
\* .order('created_at', desc=True).limit(1): the data of the read, a list of
\* the most recent measurement or the empty list
Latest(user_id) ==
    IF measurements[user_id] = <<>> THEN <<>>
    ELSE <<Last(measurements[user_id])>>

\* biometrics.py:113-146  the user exists; canonical key; read of the
\* biometric record, which is returned when there is one
GBC_Read(p) ==
    \E current_user_id \in Users, user_id \in Users :
        LET key == Canonical(current_user_id, user_id)
            r == [Idle EXCEPT !.kind = "get_biometric_compatibility",
                              !.user = current_user_id, !.other = user_id,
                              !.key = key]
        IN  /\ CanStart(p)
            /\ \E id \in ReadIds(bio, key) :
                  Begin(p, IF id > 0
                           THEN Done([r EXCEPT !.existing = id,
                                               !.score = bio[KeyOf(key)][id]],
                                     "record")
                           ELSE [r EXCEPT !.pc = "gbc_read_current"])
            /\ UNCHANGED <<assessments, measurements, compat, bio, connections>>

\* biometrics.py:149-155  the most recent measurement of the current user
GBC_ReadCurrent(p) ==
    LET r == proc[p]
    IN  /\ CanStep(p, "gbc_read_current")
        /\ Step(p, [r EXCEPT !.pc = "gbc_read_other",
                             !.user_data = Latest(r.user)])
        /\ UNCHANGED <<assessments, measurements, compat, bio, connections, budget>>

\* a plausible slip: data[0] is taken without the test for an empty list
GBC_Result_Unchecked(current_user_hrv, other_user_hrv) ==
    IF current_user_hrv = <<>> \/ other_user_hrv = <<>>
    THEN [compatibility_score |-> NoScore, message |-> "error"]
    ELSE [compatibility_score |->
              calculate_hrv_compatibility(current_user_hrv[1], other_user_hrv[1]),
          message |-> "Compatibility calculated but not yet saved"]

\* biometrics.py:165-190  the answer when no record is stored
GBC_Result(current_user_hrv, other_user_hrv) ==
    IF current_user_hrv = <<>> \/ other_user_hrv = <<>>
    THEN [compatibility_score |-> NoScore,
          message |-> "One or both users have not completed HRV measurements yet"]
    ELSE [compatibility_score |->
              calculate_hrv_compatibility(current_user_hrv[1], other_user_hrv[1]),
          message |-> "Compatibility calculated but not yet saved"]

\* biometrics.py:157-190  the most recent measurement of the other user, then
\* the answer; the score computed is returned and not saved
GBC_ReadOther(p) ==
    LET r == proc[p]
        result == GBC_Result(r.user_data, Latest(r.other))
    IN  /\ CanStep(p, "gbc_read_other")
        /\ Step(p, Done([r EXCEPT !.snap = Latest(r.other),
                                  !.score = result.compatibility_score],
                        result.message))
        /\ UNCHANGED <<assessments, measurements, compat, bio, connections, budget>>

\* ------------------------------------------------ get_compatibility_with_user
\* compatibility.py:249-273  the user exists; canonical key (min / max form);
\* read of the overall record
GCU_Read(p) ==
    \E current_user_id \in Users, user_id \in Users :
        LET key == CanonicalMinMax(current_user_id, user_id)
            r == [Idle EXCEPT !.kind = "get_compatibility_with_user",
                              !.user = current_user_id, !.other = user_id,
                              !.key = key]
        IN  /\ CanStart(p)
            /\ \E id \in ReadIds(compat, key) :
                  Begin(p, IF id > 0
                           THEN [r EXCEPT !.pc = "gcu_read_bio",
                                          !.existing = id,
                                          !.score = compat[KeyOf(key)][id].overall_score,
                                          !.read_dims =
                                              compat[KeyOf(key)][id].dimension_scores]
                           ELSE [r EXCEPT !.pc = "gcu_read_assessments"])
            /\ UNCHANGED <<assessments, measurements, compat, bio, connections>>

\* compatibility.py:275-343  no record: the completed assessments of the two
\* users are read and the answer is a score of 0 with a message
GCU_ReadAssessments(p) ==
    LET r == proc[p]
        Completed(u) ==
            {d \in Dims : \E i \in 1..Len(assessments[<<u, d>>]) :
                              assessments[<<u, d>>][i].status = "completed"}
        current_user_dimensions == Completed(r.user)
        other_user_dimensions == Completed(r.other)
        shared_dimensions == current_user_dimensions \cap other_user_dimensions
        message ==
            IF current_user_dimensions \cup other_user_dimensions = {}
            THEN "Complete assessments to see compatibility scores"
            ELSE IF shared_dimensions = {}
            THEN "No shared completed assessments yet"
            ELSE "Compatibility calculation in progress"
    IN  /\ CanStep(p, "gcu_read_assessments")
        /\ Step(p, Done([r EXCEPT !.score = 0], message))
        /\ UNCHANGED <<assessments, measurements, compat, bio, connections, budget>>

\* compatibility.py:345-459  a record: the biometric record of the pair is
\* read; when there is one and the record has no physiological dimension,
\* the dimension is added to the answer and the overall score of the answer
\* is computed again
GCU_ReadBio(p) ==
    LET r == proc[p]
        present == \E i \in 1..Len(r.read_dims) :
                      r.read_dims[i].dimension_id = BIO_DIMENSION_ID
    IN  /\ CanStep(p, "gcu_read_bio")
        /\ \E id \in ReadIds(bio, r.key) :
              LET dimension_scores ==
                      IF id > 0 /\ ~present
                      THEN Append(r.read_dims,
                                  Entry(BIO_DIMENSION_ID, "Physiological Compatibility",
                                        bio[KeyOf(r.key)][id]))
                      ELSE r.read_dims
              IN  Step(p, Done([r EXCEPT !.read_dims = dimension_scores,
                                         !.score = IF id > 0 /\ ~present
                                                   THEN overall_with_user(dimension_scores)
                                                   ELSE r.score],
                               "record"))
        /\ UNCHANGED <<assessments, measurements, compat, bio, connections, budget>>

\* ------------------------------------------------------------- store failure
\* the reads of the two lookups that answer 500 when they fail
LookupPcs == {"gbc_read_current", "gbc_read_other", "gcu_read_assessments"}

UpdaterPcs == {"rc_read_completed", "rc_read_existing", "rc_write",
               "rb_read_user", "rb_read_others", "rb_read_existing", "rb_write",
               "uo_read_bio", "uo_read_compat", "uo_write"}

\* The store operation the request is about to issue raises.  In the primary
\* path the handler answers 500; in an updater the except clause swallows it
\* (the failed write of update_overall_compatibility_scores is caught inside
\* its loop, which goes on); in the accept path the inner except swallows it.
\* A lookup answers 500, except that a failed read of the biometric record in
\* get_compatibility_with_user is caught (compatibility.py:441-443) and the
\* stored record is returned.
StoreFailure(p) ==
    LET r == proc[p]
        f(where) == [r EXCEPT !.failed = where]
    IN  /\ NoneDone
        /\ budget.failures > 0
        /\ r.pc \in UpdaterPcs \cup LookupPcs
                   \cup {"ua_write", "resp_update", "acc_read", "acc_insert",
                         "gcu_read_bio"}
        /\ budget' = [budget EXCEPT !.failures = @ - 1]
        /\ Step(p, IF r.pc \in {"ua_write", "resp_update"} \cup LookupPcs
                   THEN Done(f("primary"), "error")
                   ELSE IF r.pc = "gcu_read_bio" THEN Done(f("lookup"), "record")
                   ELSE IF r.pc = "uo_write" THEN UO_Next(f("updater"))
                   ELSE IF r.pc \in UpdaterPcs
                   THEN Done(f("updater"), SwallowedResult)
                   ELSE Done(f("accept"), "ok"))
        /\ UNCHANGED <<assessments, measurements, compat, bio, connections>>

\* ------------------------------------------- the pure functions, applied
\* the lists the scorer is given
\* (scale points, a number off the 1..5 scale, a boolean, categorical tokens)
AnswerValues == {Num(3), Num(4), Num(9), Bool(1), Cat(1), Cat(2)}
ResponseLists == UNION {[1..n -> AnswerValues] : n \in 0..MaxAnswers}

\* the measurements the HRV comparator is given
SdnnValues == {0, 30, 45, 50, 60, 70}
LfHfValues == {100, 170, 250}
HrvScoreValues == {60, 70, 72, 85}
HrvMeasurements ==
    {Measurement(sdnn, lf_hf, hrv_score) :
        sdnn \in SdnnValues, lf_hf \in LfHfValues, hrv_score \in HrvScoreValues}

\* the dimension score lists aggregated: unique dimension ids, a score or none
DimensionIds == <<"D1", "D2", BIO_DIMENSION_ID, "personality", "values", "interests">>
ScoreValues == {0, 49, 50, 68, 69, 70, 72, 75, 100}
EntryLists(values) ==
    UNION {{[i \in 1..n |-> Entry(DimensionIds[i], NoName, f[i])] :
                f \in [1..n -> values]} : n \in 0..MaxEntries}
AllPresent(dimension_scores) ==
    \A i \in 1..Len(dimension_scores) : dimension_scores[i].score # NoScore
SomePresent(dimension_scores) ==
    \E i \in 1..Len(dimension_scores) : dimension_scores[i].score # NoScore

Call(fn, x, y) == [fn |-> fn, x |-> x, y |-> y, done |-> FALSE, out |-> <<>>]
Returned(out) == [calc EXCEPT !.done = TRUE, !.out = out]

\* The calls the code can make: the updaters aggregate the merged list, which
\* is not empty and whose entries carry a score; the two read paths
\* aggregate after they appended the physiological dimension.
InitPure ==
    /\ EmptyStore
    /\ budget = Budget(0, 0, 0)
    /\ \/ \E x \in ResponseLists, y \in ResponseLists :
              calc = Call("calculate_compatibility_score", x, y)
       \/ \E x \in {l \in EntryLists(ScoreValues) : l # <<>>} :
              calc = Call("overall_updater", x, <<>>)
       \/ \E fn \in {"overall_with_user", "overall_report"},
             x \in {l \in EntryLists(ScoreValues \cup {NoScore}) : SomePresent(l)} :
              calc = Call(fn, x, <<>>)
       \/ \E x \in EntryLists(ScoreValues) :
              calc = Call("identify_strengths_and_challenges", x, <<>>)
       \/ \E x \in EntryLists(ScoreValues \cup {NoScore}) :
              calc = Call("report_identify_strengths_and_challenges", x, <<>>)
       \/ \E x \in {l \in EntryLists(ScoreValues) : Len(l) = 1} :
              calc = Call("seeded_strengths_and_challenges", x, <<>>)
       \/ \E user1_hrv \in HrvMeasurements, user2_hrv \in HrvMeasurements :
              calc = Call("calculate_hrv_compatibility", <<user1_hrv>>, <<user2_hrv>>)
       \/ \E a \in Users, b \in Users :
              calc = Call("canonical", <<[user_id |-> a], [user_id |-> b]>>, <<>>)

Pending(fn) == calc.fn = fn /\ ~calc.done
Frame == UNCHANGED <<assessments, measurements, compat, bio, connections,
                     proc, budget, lastRun>>

Apply_calculate_compatibility_score ==
    /\ Pending("calculate_compatibility_score")
    /\ calc' = Returned(calculate_compatibility_score(calc.x, calc.y))
    /\ Frame

Apply_overall_updater ==
    /\ Pending("overall_updater")
    /\ calc' = Returned(overall_updater(calc.x))
    /\ Frame

Apply_overall_with_user ==
    /\ Pending("overall_with_user")
    /\ calc' = Returned(overall_with_user(calc.x))
    /\ Frame

Apply_overall_report ==
    /\ Pending("overall_report")
    /\ calc' = Returned(overall_report(calc.x))
    /\ Frame

Apply_identify_strengths_and_challenges ==
    /\ Pending("identify_strengths_and_challenges")
    /\ calc' = Returned(identify_strengths_and_challenges(calc.x))
    /\ Frame

Apply_report_identify_strengths_and_challenges ==
    /\ Pending("report_identify_strengths_and_challenges")
    /\ calc' = Returned(report_identify_strengths_and_challenges(calc.x))
    /\ Frame

Apply_seeded_strengths_and_challenges ==
    /\ Pending("seeded_strengths_and_challenges")
    /\ calc' = Returned(seeded_strengths_and_challenges(calc.x[1].score))
    /\ Frame

\* biometrics.py:379  return final_score, compatibility_details
Apply_calculate_hrv_compatibility ==
    /\ Pending("calculate_hrv_compatibility")
    /\ calc' = Returned(
            [final_score |-> calculate_hrv_compatibility(calc.x[1], calc.y[1]),
             compatibility_details |->
                 compatibility_details(calc.x[1], calc.y[1])])
    /\ Frame

\* the pair key of two users, by each form of the canonicalizer and for each
\* order of the arguments
Apply_Canonical ==
    /\ Pending("canonical")
    /\ LET a == calc.x[1].user_id
           b == calc.x[2].user_id
       IN  calc' = Returned([if_else |-> Canonical(a, b),
                             if_else_swapped |-> Canonical(b, a),
                             min_max |-> CanonicalMinMax(a, b),
                             min_max_swapped |-> CanonicalMinMax(b, a)])
    /\ Frame

\* ------------------------------------------------------------ specifications
Serve ==
    \/ \E p \in Procs : UA_Read(p)
    \/ \E p \in Procs : UA_Write(p)
    \/ \E p \in Procs : RC_ReadCompleted(p)
    \/ \E p \in Procs : RC_ReadExisting(p)
    \/ \E p \in Procs : RC_Write(p)
    \/ \E p \in Procs : HRV_Insert(p)
    \/ \E p \in Procs : RB_ReadUser(p)
    \/ \E p \in Procs : RB_ReadOthers(p)
    \/ \E p \in Procs : RB_ReadExisting(p)
    \/ \E p \in Procs : RB_Write(p)
    \/ \E p \in Procs : UO_ReadBio(p)
    \/ \E p \in Procs : UO_ReadCompat(p)
    \/ \E p \in Procs : UO_Write(p)
    \/ SendConnectionRequest
    \/ \E p \in Procs : RESP_Read(p)
    \/ \E p \in Procs : RESP_Update(p)
    \/ \E p \in Procs : ACC_Read(p)
    \/ \E p \in Procs : ACC_Insert(p)
    \/ \E p \in Procs : Return(p)

Next == Serve \/ \E p \in Procs : StoreFailure(p)

NextPure ==
    \/ Apply_calculate_compatibility_score
    \/ Apply_overall_updater
    \/ Apply_overall_with_user
    \/ Apply_overall_report
    \/ Apply_identify_strengths_and_challenges
    \/ Apply_report_identify_strengths_and_challenges
    \/ Apply_seeded_strengths_and_challenges
    \/ Apply_calculate_hrv_compatibility
    \/ Apply_Canonical

NextAssessments ==
    \/ \E p \in Procs : UA_Read(p)
    \/ \E p \in Procs : SR_Read(p)
    \/ \E p \in Procs : UA_Write(p)
    \/ \E p \in Procs : RC_ReadCompleted(p)
    \/ \E p \in Procs : RC_ReadExisting(p)
    \/ \E p \in Procs : RC_Write(p)
    \/ \E p \in Procs : Return(p)

NextRace ==
    \/ \E p \in Procs : UA_Read(p)
    \/ \E p \in Procs : UA_Write(p)
    \/ \E p \in Procs : RC_ReadCompleted(p)
    \/ \E p \in Procs : RC_ReadExisting(p)
    \/ \E p \in Procs : RC_Write(p)
    \/ \E p \in Procs : HRV_Insert(p)
    \/ \E p \in Procs : RB_ReadUser(p)
    \/ \E p \in Procs : RB_ReadOthers(p)
    \/ \E p \in Procs : RB_ReadExisting(p)
    \/ \E p \in Procs : RB_Write(p)
    \/ \E p \in Procs : UO_ReadBio(p)
    \/ \E p \in Procs : UO_ReadCompat(p)
    \/ \E p \in Procs : UO_Write(p)
    \/ \E p \in Procs : Return(p)

NextConnections ==
    \/ SendConnectionRequest
    \/ \E p \in Procs : RESP_Read(p)
    \/ \E p \in Procs : RESP_Update(p)
    \/ \E p \in Procs : ACC_Read(p)
    \/ \E p \in Procs : ACC_Insert(p)
    \/ \E p \in Procs : Return(p)

NextLookups ==
    \/ \E p \in Procs : UA_Read(p)
    \/ \E p \in Procs : UA_Write(p)
    \/ \E p \in Procs : RC_ReadCompleted(p)
    \/ \E p \in Procs : RC_ReadExisting(p)
    \/ \E p \in Procs : RC_Write(p)
    \/ \E p \in Procs : HRV_Insert(p)
    \/ \E p \in Procs : RB_ReadUser(p)
    \/ \E p \in Procs : RB_ReadOthers(p)
    \/ \E p \in Procs : RB_ReadExisting(p)
    \/ \E p \in Procs : RB_Write(p)
    \/ \E p \in Procs : UO_ReadBio(p)
    \/ \E p \in Procs : UO_ReadCompat(p)
    \/ \E p \in Procs : UO_Write(p)
    \/ \E p \in Procs : GBC_Read(p)
    \/ \E p \in Procs : GBC_ReadCurrent(p)
    \/ \E p \in Procs : GBC_ReadOther(p)
    \/ \E p \in Procs : GCU_Read(p)
    \/ \E p \in Procs : GCU_ReadAssessments(p)
    \/ \E p \in Procs : GCU_ReadBio(p)
    \/ \E p \in Procs : Return(p)
    \/ \E p \in Procs : StoreFailure(p)

NextStart ==
    \/ \E p \in Procs : SA_Read(p)
    \/ \E p \in Procs : SA_Insert(p)
    \/ \E p \in Procs : Return(p)

\* one server process, store failures
Spec == Init /\ [][Next]_vars

\* overlapping server processes
SpecWorkers == InitWorkers /\ [][Serve]_vars

\* the pure functions
SpecPure == InitPure /\ [][NextPure]_vars

\* overlapping server processes, update_assessment and submit_response
SpecAssessments == InitAssessments /\ [][NextAssessments]_vars

\* one server process, store failures, the updaters and the two lookups
SpecLookups == InitLookups /\ [][NextLookups]_vars

\* overlapping server processes, start_assessment on a store without rows
SpecStart == InitStart /\ [][NextStart]_vars

\* one server process, connection requests sent and answered
SpecConnections == InitConnections /\ [][NextConnections]_vars

\* overlapping updaters on a store that holds a record of the pair (1, 2)
SpecRace == InitRace /\ [][NextRace]_vars

\* ==================================================================== claims
\* helpers of the statements below
PairKey(u, v) == <<Min(u, v), Max(u, v)>>
Ids(entries) == {entries[i].dimension_id : i \in 1..Len(entries)}
\* the scores the records of a key hold for a dimension
ScoresOf(k, dimension_id) ==
    UNION {{d[i].score : i \in {i \in 1..Len(d) :
                                   d[i].dimension_id = dimension_id}} :
           d \in {compat[k][j].dimension_scores : j \in 1..Len(compat[k])}}
Finished(p, kind) ==
    proc[p].pc = "done" /\ proc[p].kind = kind /\ proc[p].failed = "no"

\* C1: in every reachable state every stored PairwiseCompatibilityRecord and
\* every stored BiometricPairwiseRecord has user_id_a strictly less than
\* user_id_b (so none pairs a user with themselves).
C1_CanonicalOrder ==
    \A k \in Keys : (compat[k] # <<>> \/ bio[k] # <<>>) => k[1] < k[2]

\* C1 witness: a request of the user with the larger id has written both
\* kinds of record for a pair
C1_Witness ==
    \E p \in Procs : \E v \in Users :
        /\ proc[p].pc = "done"
        /\ v < proc[p].user
        /\ compat[<<v, proc[p].user>>] # <<>>
        /\ bio[<<v, proc[p].user>>] # <<>>

\* C2: under any interleaving of the handlers the store never holds two
\* PairwiseCompatibilityRecords for the same unordered pair of users.
C2_OneRecordPerPair ==
    \A a \in Users, b \in Users :
        Len(compat[<<a, b>>]) + (IF a # b THEN Len(compat[<<b, a>>]) ELSE 0) <= 1

\* C2 witness: two overlapping requests came to insert the record of the same
\* pair, and the second insert was rejected
C2_Witness ==
    \E p \in Procs :
        /\ proc[p].pc = "done"
        /\ proc[p].failed # "no"
        /\ compat[KeyOf(proc[p].key)] # <<>>

\* C3: running the DimensionCompleted updater a second time for the same
\* (user, dimension) with unchanged assessment data leaves every record as
\* it was after the first run (overall_score, dimension_scores, strengths
\* and challenges).
C3_Idempotent ==
    \A p \in Procs :
        (Finished(p, "update_assessment") /\ proc[p].rerun)
            => compat = proc[p].compat0

\* the case of C4: user 1 answered [3,4,5] and completes the dimension after
\* user 2, who answered [3,5,5]
C4_Case(p) ==
    /\ Finished(p, "update_assessment")
    /\ proc[p].user = 1
    /\ proc[p].ran
    /\ assessments[<<1, proc[p].dim>>][1].responses = <<Num(3), Num(4), Num(5)>>
    /\ assessments[<<2, proc[p].dim>>][1].status = "completed"
    /\ assessments[<<2, proc[p].dim>>][1].responses = <<Num(3), Num(5), Num(5)>>

\* C4 as claimed: the record of the pair then holds the score 92 for the
\* dimension (total / max_total * 100 rounded to the nearest integer).
C4_Rounded92 ==
    \A p \in Procs : C4_Case(p) => ScoresOf(<<1, 2>>, proc[p].dim) = {92}

\* C4, amended: the record of the pair then holds the score 91 for the
\* dimension (total / max_total * 100 truncated to an integer).
C4_Truncated91 ==
    \A p \in Procs : C4_Case(p) => ScoresOf(<<1, 2>>, proc[p].dim) = {91}

\* C4 witness: the case has happened
C4_Witness == \E p \in Procs : C4_Case(p)

\* C5: a store failure inside a pairwise updater (questionnaire or
\* biometric) is swallowed: the request reports success and the primary
\* write that triggered the updater stays stored unchanged.
C5_FailureSwallowed ==
    \A p \in Procs :
        (proc[p].pc = "done" /\ proc[p].failed = "updater") =>
            /\ proc[p].result = "ok"
            /\ proc[p].kind = "update_assessment" =>
                  assessments[<<proc[p].user, proc[p].dim>>][proc[p].assessment_id]
                      = proc[p].written
            /\ proc[p].kind = "save_hrv" =>
                  Last(measurements[proc[p].user]) = proc[p].written

\* C5 witness: an updater failed in the middle of its fan-out, after it had
\* handled a first pair
C5_Witness ==
    \E p \in Procs :
        /\ proc[p].pc = "done"
        /\ proc[p].failed = "updater"
        /\ proc[p].todo # {}
        /\ proc[p].existing > 0

\* C6: when the DimensionCompleted(u, D) updater finishes without a store
\* failure and without a concurrent updater, every other user v whose
\* assessment of D is completed has a record for the canonical pair of u and
\* v that holds, for D, the score of the two users' responses; the records
\* of pairs without u are unchanged.
C6_Postcondition ==
    \A p \in Procs :
        (Finished(p, "update_assessment") /\ proc[p].ran /\ proc[p].solo) =>
            LET u == proc[p].user
                D == proc[p].dim
            IN  /\ \A v \in Users \ {u} :
                      assessments[<<v, D>>][1].status = "completed" =>
                          /\ compat[PairKey(u, v)] # <<>>
                          /\ ScoresOf(PairKey(u, v), D) =
                                {calculate_compatibility_score(
                                     assessments[<<u, D>>][1].responses,
                                     assessments[<<v, D>>][1].responses)}
                /\ \A k \in Keys :
                      (k[1] # u /\ k[2] # u) => compat[k] = proc[p].compat0[k]

\* C6 witness: the updater finished for a user with two completed others
\* while a record of a pair without the user is stored
C6_Witness ==
    \E p \in Procs :
        /\ Finished(p, "update_assessment") /\ proc[p].ran /\ proc[p].solo
        /\ \A v \in Users : assessments[<<v, proc[p].dim>>][1].status = "completed"
        /\ \E k \in Keys :
              k[1] # proc[p].user /\ k[2] # proc[p].user /\ compat[k] # <<>>

\* the postcondition of BiometricMeasurementSaved(u)
C7_Post(u) ==
    \A v \in Users \ {u} :
        measurements[v] # <<>> =>
            LET k == PairKey(u, v)
                compatibility_score ==
                    calculate_hrv_compatibility(Last(measurements[u]),
                                                Last(measurements[v]))
            IN  /\ bio[k] # <<>>
                /\ \A i \in 1..Len(bio[k]) : bio[k][i] = compatibility_score
                /\ compat[k] # <<>>
                /\ \A j \in 1..Len(compat[k]) :
                      Cardinality({i \in 1..Len(compat[k][j].dimension_scores) :
                          compat[k][j].dimension_scores[i].dimension_id
                              = BIO_DIMENSION_ID}) = 1
                /\ ScoresOf(k, BIO_DIMENSION_ID) = {compatibility_score}

C8_UniqueDimensions ==
    \A k \in Keys : \A j \in 1..Len(compat[k]) :
        LET d == compat[k][j].dimension_scores
        IN  \A i1 \in 1..Len(d), i2 \in 1..Len(d) :
                d[i1].dimension_id = d[i2].dimension_id => i1 = i2

\* C8 witness: an updater merged into a stored record that now holds the
\* scores of several dimensions
C8_Witness ==
    \E p \in Procs :
        /\ proc[p].pc = "done"
        /\ proc[p].existing > 0
        /\ proc[p].key # NoKey
        /\ compat[KeyOf(proc[p].key)] # <<>>
        /\ Len(compat[KeyOf(proc[p].key)][1].dimension_scores) >= 2

\* the entries of a list that carry a score
PresentScores(dimension_scores) ==
    SelectSeq(dimension_scores, LAMBDA d : d.score # NoScore)
OverallCalled ==
    calc.done /\ calc.fn \in {"overall_updater", "overall_with_user",
                              "overall_report"}

\* C9 as claimed: the overall score is the mean of the present scores
\* rounded to the nearest integer (an entry without a score is left out of
\* the sum and of the count), in the updaters and in the read paths.
C9_RoundedMean ==
    OverallCalled =>
        LET n == Len(PresentScores(calc.x))
            sum == SumScores(PresentScores(calc.x))
        IN  Abs(2 * sum - 2 * n * calc.out) <= n

\* C9, amended: the overall score is the mean truncated to an integer (the
\* greatest integer not above it); an entry without a score is left out of
\* the sum and of the count by GET /compatibility/{user_id} and counted as
\* a score of 0 by GET /compatibility/report/{user_id}.
C9_TruncatedMean ==
    OverallCalled =>
        LET n == IF calc.fn = "overall_report" THEN Len(calc.x)
                 ELSE Len(PresentScores(calc.x))
            sum == SumScores(PresentScores(calc.x))
        IN  n * calc.out <= sum /\ sum < n * (calc.out + 1)

\* C9 witness: a read path aggregated a list with a missing score and a
\* mean that is not an integer
C9_Witness ==
    /\ calc.done /\ calc.fn = "overall_with_user"
    /\ ~AllPresent(calc.x)
    /\ SumScores(PresentScores(calc.x)) % Len(PresentScores(calc.x)) # 0

\* C10: for every list of dimension scores with unique dimension_ids, in
\* every classify variant (updaters, seeded record, report), no dimension_id
\* is both in the strengths and in the challenges produced.
C10_Disjoint ==
    (calc.done /\ calc.fn \in {"identify_strengths_and_challenges",
                               "report_identify_strengths_and_challenges",
                               "seeded_strengths_and_challenges"}) =>
        Ids(calc.out.strengths) \cap Ids(calc.out.challenges) = {}

\* C10 witness: the updater variant classified a list that holds a score at
\* the threshold and produced both strengths and challenges
C10_Witness ==
    /\ calc.done /\ calc.fn = "identify_strengths_and_challenges"
    /\ \E i \in 1..Len(calc.x) : calc.x[i].score = 70
    /\ calc.out.strengths # <<>>
    /\ calc.out.challenges # <<>>

\* C11  Canonicalization is commutative and total: for every two user ids,
\* in either order of the arguments, the if / else form and the min / max
\* form return the same key, whose user_id_a is the smaller id and whose
\* user_id_b is the larger one.
C11_Commutative ==
    (calc.fn = "canonical" /\ calc.done) =>
        LET a == calc.x[1].user_id
            b == calc.x[2].user_id
            lo == IF a <= b THEN a ELSE b
            hi == IF a <= b THEN b ELSE a
            key == [user_id_a |-> lo, user_id_b |-> hi]
        IN  /\ calc.out.if_else = key
            /\ calc.out.if_else_swapped = key
            /\ calc.out.min_max = key
            /\ calc.out.min_max_swapped = key

\* the key of a pair given larger id first has been computed
C11_Witness ==
    /\ calc.fn = "canonical"
    /\ calc.done
    /\ calc.x[1].user_id > calc.x[2].user_id
    /\ calc.out.if_else.user_id_a = calc.x[2].user_id

\* C12  Self-compatibility: a non-empty response list of numeric or
\* categorical values scored against itself gives 100, a single value
\* included.
C12_SelfCompatibility ==
    (/\ calc.fn = "calculate_compatibility_score"
     /\ calc.done
     /\ calc.x # <<>>
     /\ calc.y = calc.x) => calc.out = 100

\* a list holding a numeric and a categorical value has been scored against
\* itself
C12_Witness ==
    /\ calc.fn = "calculate_compatibility_score"
    /\ calc.done
    /\ calc.y = calc.x
    /\ \E i \in 1..Len(calc.x) : calc.x[i].kind = "int"
    /\ \E i \in 1..Len(calc.x) : calc.x[i].kind = "str"
    /\ calc.out = 100

\* C13  A position where one value is numeric and the other categorical is
\* skipped and contributes neither points to the total nor 100 to the
\* denominator: the score is the percentage over the remaining positions
\* only (within one of it, whatever the rounding), so that [3, 'x'] against
\* [3, 4] scores 100.
C13_Compared(user_responses, other_responses) ==
    {i \in 1..Min(Len(user_responses), Len(other_responses)) :
        IsInstance(user_responses[i], other_responses[i])}
C13_SkippedExcluded ==
    (/\ calc.fn = "calculate_compatibility_score"
     /\ calc.done
     /\ C13_Compared(calc.x, calc.y) # {}) =>
        LET n == Cardinality(C13_Compared(calc.x, calc.y))
            min_length == Min(Len(calc.x), Len(calc.y))
            total_points == TotalPoints(SubSeq(calc.x, 1, min_length),
                                        SubSeq(calc.y, 1, min_length), 1)
        IN  /\ calc.out * n > total_points - n
            /\ calc.out * n < total_points + n
            /\ (calc.x = <<Num(3), Cat(1)>> /\ calc.y = <<Num(3), Num(4)>>)
                   => calc.out = 100

\* C14  For every HRV measurement m with sdnn >= 50, comparing m with itself
\* gives the final score 100, whatever its lf_hf_ratio and hrv_score.
C14_Case ==
    /\ calc.fn = "calculate_hrv_compatibility"
    /\ calc.done
    /\ calc.x = calc.y
    /\ calc.x[1].sdnn >= 50
C14_SelfCompare100 == C14_Case => calc.out.final_score = 100

\* C14 as the code has it: for every HRV measurement m with sdnn >= 50,
\* comparing m with itself gives 88 when its hrv_score is below 80 and 86
\* when it is 80 or more, whatever its lf_hf_ratio (the sdnn sub-score is
\* 100, the lf_hf sub-score of equal ratios is 70).
C14_SelfCompare88 ==
    C14_Case =>
        /\ calc.out.final_score = IF calc.x[1].hrv_score >= 80 THEN 86 ELSE 88
        /\ calc.out.compatibility_details.sdnn_compatibility = 100
        /\ calc.out.compatibility_details.lf_hf_compatibility = 70

\* a measurement with sdnn 60 has been compared with itself
C14_Witness ==
    /\ calc.fn = "calculate_hrv_compatibility"
    /\ calc.done
    /\ calc.x = calc.y
    /\ calc.x[1] = Measurement(60, 170, 72)
    /\ calc.out.final_score = 88

\* the weighted sum 0.4 * sdnn + 0.4 * lf_hf + 0.2 * hrv of the sub-scores of
\* the call, as the fraction C15_Sum / C15_Den
C15_Case == calc.fn = "calculate_hrv_compatibility" /\ calc.done
C15_Sum ==
    LET s == sdnn_score(calc.x[1], calc.y[1])
        l == lf_hf_score(calc.x[1], calc.y[1])
        h == hrv_score_comp(calc.x[1], calc.y[1])
    IN  2 * s.num * l.den + 2 * l.num * s.den + h * s.den * l.den
C15_Den ==
    5 * sdnn_score(calc.x[1], calc.y[1]).den
      * lf_hf_score(calc.x[1], calc.y[1]).den
\* the examples: sdnn 30 and 60, lf_hf 1.0 and 1.7, hrv_score 70 and 72 give
\* the sub-scores 90, 100, 100 and the final score 96; two sdnn of 30 give
\* the sdnn sub-score 62.5, reported in the details as 62
C15_Examples ==
    /\ (calc.x[1] = Measurement(30, 100, 70)
        /\ calc.y[1] = Measurement(60, 170, 72))
          => /\ calc.out.compatibility_details.sdnn_compatibility = 90
             /\ calc.out.compatibility_details.lf_hf_compatibility = 100
             /\ calc.out.compatibility_details.hrv_score_compatibility = 100
             /\ calc.out.final_score = 96
    /\ (calc.x[1].sdnn = 30 /\ calc.y[1].sdnn = 30)
          => /\ 2 * sdnn_score(calc.x[1], calc.y[1]).num
                    = 125 * sdnn_score(calc.x[1], calc.y[1]).den
             /\ calc.out.compatibility_details.sdnn_compatibility = 62

\* C15  The final score of the HRV comparator is the weighted sum
\* 0.4 * sdnn_score + 0.4 * lf_hf_score + 0.2 * hrv_similarity rounded to the
\* nearest integer, and the examples hold.
C15_RoundedFinal ==
    C15_Case =>
        /\ 2 * C15_Den * calc.out.final_score >= 2 * C15_Sum - C15_Den
        /\ 2 * C15_Den * calc.out.final_score <= 2 * C15_Sum + C15_Den
        /\ C15_Examples

\* C15 as the code has it: the final score is the weighted sum truncated to
\* an integer, and the examples hold.
C15_TruncatedFinal ==
    C15_Case =>
        /\ C15_Den * calc.out.final_score <= C15_Sum
        /\ C15_Sum < C15_Den * (calc.out.final_score + 1)
        /\ C15_Examples

\* a weighted sum with a fraction of a half or more has been computed (sdnn
\* 50 and 70: 76.57), and so have the two examples
C15_Witness ==
    /\ C15_Case
    /\ calc.x[1] = Measurement(50, 100, 70)
    /\ calc.y[1] = Measurement(70, 100, 70)
    /\ calc.out.final_score = 76
    /\ 2 * (C15_Sum - C15_Den * calc.out.final_score) >= C15_Den

\* C18  Under any interleaving of start_assessment calls, two concurrent
\* calls of one user for one dimension included, the store holds at most one
\* assessment row for a user and a dimension.
C18_OnePerUserDimension ==
    \A k \in Users \X Dims : Len(assessments[k]) <= 1

\* the assessment rows of the store
AssessmentIds ==
    {<<k, i>> : k \in Users \X Dims, i \in 1..MaxWorkerRequests}
StoredIds == {id \in AssessmentIds : id[2] <= Len(assessments[id[1]])}

\* C16  The status machine of an assessment: with a fixed question catalogue,
\* the status is completed exactly when the number of recorded responses has
\* reached the question count of the dimension, and once an assessment is
\* completed no update_assessment or submit_response call returns it to
\* in_progress.
C16_NeverReopens ==
    /\ [](\A id \in StoredIds :
            assessments[id[1]][id[2]].status = "completed"
                <=> Len(assessments[id[1]][id[2]].responses) >= QuestionCount)
    /\ [][\A id \in StoredIds :
            assessments[id[1]][id[2]].status = "completed"
                => assessments'[id[1]][id[2]].status = "completed"]_vars

\* C17  In every reachable state the progress of every assessment is between
\* 0 and 100, responses submitted after completion and batches longer than
\* the remaining questions included.
C17_ProgressRange ==
    \A id \in StoredIds :
        /\ assessments[id[1]][id[2]].progress >= 0
        /\ assessments[id[1]][id[2]].progress <= 100

\* C19  Responses are append-only: under any interleaving of
\* update_assessment and submit_response calls on an assessment, the
\* responses stored for it extend the responses stored before, so that no
\* acknowledged response is lost, reordered or overwritten.
C19_Extends(before, after) ==
    /\ Len(before) <= Len(after)
    /\ SubSeq(after, 1, Len(before)) = before
C19_AppendOnly ==
    [][\A id \in StoredIds :
          C19_Extends(assessments[id[1]][id[2]].responses,
                      assessments'[id[1]][id[2]].responses)]_vars

\* a lookup that found no record has answered
C20_Answered(p, kind) ==
    /\ proc[p].pc = "done"
    /\ proc[p].kind = kind
    /\ proc[p].failed = "no"
    /\ proc[p].existing = 0
C20_Measured(u) == measurements[u] # <<>>
C20_Shared(u, v) ==
    \E d \in Dims : /\ assessments[<<u, d>>][1].status = "completed"
                    /\ assessments[<<v, d>>][1].status = "completed"
C20_Lookups == {"get_biometric_compatibility", "get_compatibility_with_user"}

\* C20  Absence of data is a result, not an error.  A lookup that finds no
\* stored record of the pair, when one or both users lack comparable data,
\* answers an absent score (biometric lookup) or the score 0 (overall lookup)
\* with an explanatory message, raises no error and writes nothing; when both
\* users have measurements and no record is stored, the biometric lookup
\* answers the score computed from the two most recent measurements and does
\* not save it.  No step of a lookup changes the store.
C20_AbsenceIsAResult ==
    /\ [](\A p \in Procs :
            /\ C20_Answered(p, "get_biometric_compatibility") =>
                  LET u == proc[p].user
                      v == proc[p].other
                  IN  /\ bio[KeyOf(proc[p].key)] = <<>>
                      /\ ~(C20_Measured(u) /\ C20_Measured(v)) =>
                            /\ proc[p].score = NoScore
                            /\ proc[p].result =
                                 "One or both users have not completed HRV measurements yet"
                      /\ (C20_Measured(u) /\ C20_Measured(v)) =>
                            /\ proc[p].score = calculate_hrv_compatibility(
                                    Last(measurements[u]), Last(measurements[v]))
                            /\ proc[p].result =
                                 "Compatibility calculated but not yet saved"
            /\ (/\ C20_Answered(p, "get_compatibility_with_user")
                /\ ~C20_Shared(proc[p].user, proc[p].other)) =>
                  /\ compat[KeyOf(proc[p].key)] = <<>>
                  /\ proc[p].score = 0
                  /\ proc[p].result \in
                        {"Complete assessments to see compatibility scores",
                         "No shared completed assessments yet"})
    /\ [][\A p \in Procs :
            (/\ proc'[p] # proc[p]
             /\ \/ proc[p].kind \in C20_Lookups
                \/ proc'[p].kind \in C20_Lookups)
                => UNCHANGED <<assessments, measurements, compat, bio, connections>>]_vars

\* the biometric lookup has answered a computed score for two measured users
\* without a stored record
C20_Witness ==
    \E p \in Procs :
        /\ C20_Answered(p, "get_biometric_compatibility")
        /\ proc[p].user # proc[p].other
        /\ C20_Measured(proc[p].user)
        /\ C20_Measured(proc[p].other)
        /\ proc[p].score = 96
        /\ bio[KeyOf(proc[p].key)] = <<>>

\* C21  Every score the core computes for a pairwise record is an integer
\* between 0 and 100: the dimension score of any two response lists (numbers
\* off the scale, categorical values and mixed kinds included), the final
\* score of any two HRV measurements, and the overall score of any list of
\* such scores.
C21_ScoreRange ==
    calc.done =>
        /\ calc.fn \in {"calculate_compatibility_score", "overall_updater"}
              => calc.out \in 0..100
        /\ calc.fn = "calculate_hrv_compatibility"
              => calc.out.final_score \in 0..100

\* a response 6 points away from the other user's has been scored (the
\* similarity of the position is clamped to 0)
C21_Witness ==
    /\ calc.fn = "calculate_compatibility_score"
    /\ calc.done
    /\ calc.x = <<Num(9), Num(3)>>
    /\ calc.y = <<Num(3), Num(3)>>
    /\ calc.out = 50

\* the store InitRace starts from, as a state of the requests served one
\* at a time from the store without records
C22_RaceStore ==
    /\ assessments = [k \in Users \X Dims |->
           IF k \in {<<1, "D1">>, <<2, "D1">>, <<2, "D2">>}
           THEN <<AssessmentRow("completed", 100, AnswerSheet(k[1]))>>
           ELSE <<new_assessment>>]
    /\ measurements = [u \in Users |->
           IF u = 2 THEN <<Measurement(60, 170, 72)>> ELSE <<>>]
    /\ compat = [k \in Keys |->
           IF k = <<1, 2>>
           THEN <<CompatRow(91, <<Entry("D1", NoName, 91)>>, <<>>, <<>>)>>
           ELSE <<>>]
    /\ bio = [k \in Keys |-> <<>>]
    /\ \A p \in Procs : proc[p] = Idle

\* what an updater run about to write an existing record writes into it
C22_Merged(r) ==
    Merge(r.read_dims,
          IF r.pc = "rc_write"
          THEN Entry(r.dim, NoName, r.score)
          ELSE Entry(BIO_DIMENSION_ID, "Physiological Compatibility", r.score))

\* C22  Last write wins: the write of an updater run into an existing pair
\* record is not checked against a version.  Whatever the record holds at
\* the time of the write, after it the record holds the entries the run
\* read earlier with the run's own dimension merged in, so a dimension
\* another run wrote in between is lost.
C22_LastWriteWins ==
    [][\A p \in Procs :
          (/\ proc[p].pc \in {"rc_write", "uo_write"}
           /\ proc[p].existing > 0
           /\ proc'[p].pc # proc[p].pc) =>
              compat'[KeyOf(proc[p].key)][proc[p].existing].dimension_scores
                  = C22_Merged(proc[p])]_vars

\* the race: user 1 completed D2 while another updater run of the pair
\* (1, 2) (a re-run on D1, or the biometric updater) was between its read
\* and its write; both runs have ended without a failure, both users have
\* completed D2, and the record of the pair lacks D2
C22_Witness ==
    \E p \in Procs :
        /\ proc[p].pc = "done" /\ proc[p].failed = "no"
        /\ proc[p].kind \in {"update_assessment", "save_hrv"}
        /\ proc[p].dim # "D2"
        /\ \A q \in Procs \ {p} : proc[q].pc = "idle"
        /\ budget.requests = 0
        /\ assessments[<<1, "D2">>][1].status = "completed"
        /\ assessments[<<2, "D2">>][1].status = "completed"
        /\ "D2" \notin Ids(compat[<<1, 2>>][1].dimension_scores)
        /\ Ids(compat[<<1, 2>>][1].dimension_scores)
              \cap {"D1", BIO_DIMENSION_ID} # {}

\* the same race with the biometric updater as the later writer
C22_WitnessBiometric ==
    \E p \in Procs :
        /\ proc[p].pc = "done" /\ proc[p].failed = "no"
        /\ proc[p].kind = "save_hrv"
        /\ \A q \in Procs \ {p} : proc[q].pc = "idle"
        /\ assessments[<<1, "D2">>][1].status = "completed"
        /\ "D2" \notin Ids(compat[<<1, 2>>][1].dimension_scores)
        /\ BIO_DIMENSION_ID \in Ids(compat[<<1, 2>>][1].dimension_scores)

\* C23  In every stored pairwise record, after any sequence of completed
\* dimensions, saved measurements and accepted connection requests,
\* overall_score is the integer mean of the scores of the record's
\* dimension_scores.
C23_OverallIsMean ==
    \A k \in Keys : \A j \in 1..Len(compat[k]) :
        compat[k][j].overall_score
            = overall_updater(compat[k][j].dimension_scores)

\* the same for the records that do not hold the entries written when a
\* connection request is accepted
C23_OverallIsMeanOfComputed ==
    \A k \in Keys : \A j \in 1..Len(compat[k]) :
        "personality" \notin Ids(compat[k][j].dimension_scores) =>
            compat[k][j].overall_score
                = overall_updater(compat[k][j].dimension_scores)

\* C24  In every stored pairwise record strengths and challenges are the
\* classification of the record's dimension_scores under the one rule (up
\* to 3 highest entries with score >= 70, up to 2 lowest with score < 70),
\* a record just inserted by the questionnaire updater and a record seeded
\* by the biometric updater included.
C24_Classified ==
    \A k \in Keys : \A j \in 1..Len(compat[k]) :
        LET sc == identify_strengths_and_challenges(compat[k][j].dimension_scores)
        IN  /\ compat[k][j].strengths = sc.strengths
            /\ compat[k][j].challenges = sc.challenges

\* the same for the records an updater has written on its update path (a
\* record holding two entries or more)
C24_ClassifiedWhenMerged ==
    \A k \in Keys : \A j \in 1..Len(compat[k]) :
        LET sc == identify_strengths_and_challenges(compat[k][j].dimension_scores)
        IN  (/\ Len(compat[k][j].dimension_scores) >= 2
             /\ "personality" \notin Ids(compat[k][j].dimension_scores)) =>
                /\ compat[k][j].strengths = sc.strengths
                /\ compat[k][j].challenges = sc.challenges

\* an entry of the record of pair k is a score the scorer gives for completed
\* answers of the two users to the dimension, or the comparator for
\* measurements of the two users
C25_Computed(k, e) ==
    \/ /\ e.dimension_id \in Dims
       /\ \E i \in 1..Len(assessments[<<k[1], e.dimension_id>>]),
             j \in 1..Len(assessments[<<k[2], e.dimension_id>>]) :
              LET a == assessments[<<k[1], e.dimension_id>>][i]
                  b == assessments[<<k[2], e.dimension_id>>][j]
              IN  /\ a.status = "completed" /\ b.status = "completed"
                  /\ e.score = calculate_compatibility_score(a.responses,
                                                             b.responses)
    \/ /\ e.dimension_id = BIO_DIMENSION_ID
       /\ \E i \in 1..Len(measurements[k[1]]), j \in 1..Len(measurements[k[2]]) :
              e.score = calculate_hrv_compatibility(measurements[k[1]][i],
                                                    measurements[k[2]][j])

\* C25  A pairwise record is stored for a pair only if a dimension score has
\* been computed from the pair's data, and every entry of its
\* dimension_scores is a score the scorer or the comparator produced for
\* the pair: no event, accepting a connection request included, creates a
\* record with scores that were not computed.
C25_OnlyComputed ==
    \A k \in Keys : \A j \in 1..Len(compat[k]) :
        LET d == compat[k][j].dimension_scores
        IN  /\ d # <<>>
            /\ \A i \in 1..Len(d) : C25_Computed(k, d[i])

\* the same for the entries the two updaters write
C25_UpdatersOnlyComputed ==
    \A k \in Keys : \A j \in 1..Len(compat[k]) :
        LET d == compat[k][j].dimension_scores
        IN  /\ d # <<>>
            /\ \A i \in 1..Len(d) :
                  d[i].dimension_id \notin {"personality", "values", "interests"}
                      => C25_Computed(k, d[i])

\* the request r of user u re-triggers the updater of a dimension u had
\* completed (no new response), v has completed the dimension too, and the
\* record of the pair that r found lacked the dimension: an earlier updater
\* run of the pair was aborted by a store failure before it wrote the record
C26_Aborted(r, v) ==
    /\ r.batch = <<>>
    /\ Len(r.cur) >= QuestionCount
    /\ assessments[<<v, r.dim>>][1].status = "completed"
    /\ \A j \in 1..Len(r.compat0[PairKey(r.user, v)]) :
          r.dim \notin Ids(r.compat0[PairKey(r.user, v)][j].dimension_scores)

\* C26  Self-healing: when an updater run of (u, D) was aborted by a store
\* failure before it updated the record of the pair (u, v), the next
\* triggering event of u on D that runs without a failure leaves the
\* record of (u, v) holding the score of the two users' responses for D.
C26_SelfHealing ==
    \A p \in Procs :
        (Finished(p, "update_assessment") /\ proc[p].ran) =>
            \A v \in Users \ {proc[p].user} :
                C26_Aborted(proc[p], v) =>
                    /\ compat[PairKey(proc[p].user, v)] # <<>>
                    /\ ScoresOf(PairKey(proc[p].user, v), proc[p].dim) =
                          {calculate_compatibility_score(
                               assessments[<<proc[p].user, proc[p].dim>>][1].responses,
                               assessments[<<v, proc[p].dim>>][1].responses)}

\* a store failure has happened, and a later run of the same user on the
\* same dimension has ended without a failure for a pair left without the
\* dimension
C26_Witness ==
    \E p \in Procs : \E v \in Users \ {proc[p].user} :
        /\ Finished(p, "update_assessment") /\ proc[p].ran
        /\ budget.failures = 0
        /\ C26_Aborted(proc[p], v)
        /\ proc[p].dim \in Ids(compat[PairKey(proc[p].user, v)][1].dimension_scores)

\* the pairs of a questionnaire run of (u, D) whose record does not hold the
\* score of the two users' responses, and the pairs of a biometric run of u
\* whose record does not hold the score of the two latest measurements
C27_QuestionnaireMissed(u, D) ==
    {v \in Users \ {u} :
        /\ assessments[<<v, D>>][1].status = "completed"
        /\ ScoresOf(PairKey(u, v), D) #
              {calculate_compatibility_score(assessments[<<u, D>>][1].responses,
                                             assessments[<<v, D>>][1].responses)}}
C27_BiometricMissed(u) ==
    {v \in Users \ {u} :
        /\ measurements[v] # <<>>
        /\ ScoresOf(PairKey(u, v), BIO_DIMENSION_ID) #
              {calculate_hrv_compatibility(Last(measurements[u]),
                                           Last(measurements[v]))}}
C27_QuestionnairePairs ==
    \A p \in Procs :
        (/\ proc[p].pc = "done" /\ proc[p].failed = "updater"
         /\ proc[p].kind = "update_assessment") =>
            Cardinality(C27_QuestionnaireMissed(proc[p].user, proc[p].dim)) <= 1
C27_BiometricPairs ==
    \A p \in Procs :
        (/\ proc[p].pc = "done" /\ proc[p].failed = "updater"
         /\ proc[p].kind = "save_hrv") =>
            Cardinality(C27_BiometricMissed(proc[p].user)) <= 1

\* C27  Per-pair independence within one fan-out: a store failure while the
\* record of one pair (u, v) is read or written does not keep the records of
\* the other pairs (u, w) of the same event from being updated, in the
\* questionnaire updater and in the biometric updater: when a run with one
\* failure ends, at most one of its pairs is left without its score.
C27_PairsIndependent ==
    C27_QuestionnairePairs /\ C27_BiometricPairs

\* what the code does keep: a failed write of the overall record of one pair
\* in update_overall_compatibility_scores goes on with the next pair
C27_FailedOverallWriteGoesOn ==
    [][\A p \in Procs :
          (/\ proc[p].pc = "uo_write"
           /\ proc[p].failed = "no" /\ proc'[p].failed = "updater"
           /\ proc[p].todo \ {proc[p].other} # {}) =>
              proc'[p].pc = "uo_read_compat"]_vars

\* the scorer and the comparator give the same result with the arguments
\* exchanged
C28_ScorerSymmetric ==
    (calc.done /\ calc.fn = "calculate_compatibility_score") =>
        calc.out = calculate_compatibility_score(calc.y, calc.x)
C28_ComparatorSymmetric ==
    (calc.done /\ calc.fn = "calculate_hrv_compatibility") =>
        calc.out.final_score = calculate_hrv_compatibility(calc.y[1], calc.x[1])

\* C28  Scoring is symmetric: score(a, b) = score(b, a) for all response
\* lists a and b, and the final HRV score of (m1, m2) is that of (m2, m1),
\* so a stored score does not depend on which member of the pair triggered
\* the updater.
C28_Symmetric ==
    C28_ScorerSymmetric /\ C28_ComparatorSymmetric

\* the scorer is symmetric on the lists without a boolean
C28_ScorerSymmetricWithoutBool ==
    (/\ calc.done /\ calc.fn = "calculate_compatibility_score"
     /\ \A i \in 1..Len(calc.x) : calc.x[i].kind # "bool"
     /\ \A i \in 1..Len(calc.y) : calc.y[i].kind # "bool") =>
        calc.out = calculate_compatibility_score(calc.y, calc.x)

\* u and v have both completed D, no third user has, and D is the only
\* dimension the two have both completed: the record of the pair is written
\* by the runs of u and of v on D and by no other run
C29_TwoCompleted(u, v, D) ==
    /\ assessments[<<u, D>>][1].status = "completed"
    /\ assessments[<<v, D>>][1].status = "completed"
    /\ \A w \in Users \ {u, v} : assessments[<<w, D>>][1].status # "completed"
    /\ \A E \in Dims \ {D} :
          ~(/\ assessments[<<u, E>>][1].status = "completed"
            /\ assessments[<<v, E>>][1].status = "completed")

C29_WitnessBothSaw ==
    \E p \in Procs : \E v \in Users \ {proc[p].user} :
        /\ proc[p].pc = "done" /\ proc[p].kind = "update_assessment"
        /\ proc[p].failed = "updater" /\ ~proc[p].solo
        /\ \A q \in Procs \ {p} : proc[q].pc = "idle"
        /\ budget.requests = MaxWorkerRequests - 2
        /\ C29_TwoCompleted(Min(proc[p].user, v), Max(proc[p].user, v), proc[p].dim)

\* no connection from a user to themselves is stored
C30_NoSelfConnection ==
    \A i \in 1..Len(connections) :
        connections[i].user_id_sender # connections[i].user_id_receiver

\* C30  send_connection_request creates no connection when one (of any
\* status, in either direction) is stored between the sender and the
\* receiver: after any sequence of requests there is at most one connection
\* for an unordered pair of users, and none from a user to themselves.
C30_OnePerPair ==
    /\ C30_NoSelfConnection
    /\ \A i \in 1..Len(connections), j \in 1..Len(connections) :
          {connections[i].user_id_sender, connections[i].user_id_receiver}
              = {connections[j].user_id_sender, connections[j].user_id_receiver}
                  => i = j

=============================================================================
